---- MODULE Spec2Model ----
(***************************************************************************)
(* Ledger engine of kn1381/Banking-System: per-account locks, atomic       *)
(* (write-temp-then-rename) balance records, the ordered two-account       *)
(* transfer with compensating rollback, and the append-only audit log.     *)
(* Modelled from src/BS.py (console variant), src/c2.py (threaded GUI       *)
(* variant) and src/c3.py (credential-gated variant); the variable         *)
(* `variant` says which file's code a run executes.                        *)
(* One thread of the model is one invocation of one engine operation.      *)
(***************************************************************************)
EXTENDS Integers, Sequences, FiniteSets, TLC

\* ------------------------------------------------------------------ bounds
\* Amounts and initial balances are drawn from 1..MaxAmount.
MaxAmount == 2
\* At most MaxFaults injected I/O failures (temp write, rename, audit append)
\* in one run.
MaxFaults == 2

\* ------------------------------------------------------------- the universe
Threads == {"t1", "t2", "t3"}
Accounts == {"A", "A_log", "B", "C", "D"}
Variants == {"BS", "c2"}
\* The credential-gated variant.
GatedVariant == "c3"
\* Passwords a caller may type; NoPassword where none is asked for.
Passwords == {"pw1", "pw2"}
NoPassword == "-"
NoThread == "none"
NoAccount == "-"

\* Position of an account id in Python's string order (used by sorted()).
Ord(a) == CASE a = "A" -> 1 [] a = "A_log" -> 2 [] a = "B" -> 3
            [] a = "C" -> 4 [] a = "D" -> 5 [] OTHER -> 0

\* ---------------------------------------------------------------- file names
\* An account id and a file name as the pieces the code's string tests can
\* tell apart: "A_log" is <<"A", "_log">>, "A.txt" is <<"A", ".txt">>.
Pieces(a) == IF a = "A_log" THEN <<"A", "_log">> ELSE <<a>>
\* os.path.join(ACCOUNTS_DIR, f"{account_id}.txt") and its ".tmp" companion.
get_account_filepath(a) == Pieces(a) \o <<".txt">>
TempPath(a) == get_account_filepath(a) \o <<".tmp">>
CentralLogPath == <<"central", "_log", ".txt">>
TransactionLogPath == <<"transactions", ".log">>
\* str.endswith
EndsWith(f, suffix) ==
    /\ Len(f) >= Len(suffix)
    /\ SubSeq(f, Len(f) - Len(suffix) + 1, Len(f)) = suffix
\* The test generate_central_log applies to each directory entry.
IsAccountFile(f) ==
    /\ EndsWith(f, <<".txt">>)
    /\ ~EndsWith(f, <<"_log", ".txt">>)
    /\ f # TransactionLogPath
\* account_file.replace(".txt", "")
NotTxt(x) == x # ".txt"
AccountIdOf(f) == SelectSeq(f, NotTxt)

\* ------------------------------------------------------------ file contents
\* A file is absent, holds a complete balance line, or holds text int() rejects.
NoFile == [st |-> "absent", bal |-> 0]
Rec(b) == [st |-> "ok", bal |-> b]
Partial == [st |-> "partial", bal |-> 0]

\* ------------------------------------------------------------ audit entries
Entry(kind, id, tag, peer, amount, status) ==
    [kind |-> kind, id |-> id, tag |-> tag, peer |-> peer,
     amount |-> amount, status |-> status]

\* ------------------------------------------------------------- requests
Req(kind, a, b, amt) == [kind |-> kind, a |-> a, b |-> b, amt |-> amt]
NoReq == Req("none", NoAccount, NoAccount, 0)
NoWrite == [acct |-> NoAccount, val |-> 0, phase |-> "none"]

\* A thread that has not been started.
IdleThread ==
    [pc |-> "idle", op |-> NoReq, want |-> <<>>, handles |-> <<>>, held |-> 0,
     balance_from |-> 0, balance_to |-> 0,
     success_from |-> FALSE, success_to |-> FALSE,
     wcall |-> NoWrite, wret |-> FALSE, logq |-> <<>>, listing |-> {},
     result |-> "none", password |-> NoPassword, account_data |-> NoFile]
\* The history of a thread that has not been started.
NoHistory ==
    [pre_from |-> NoFile, pre_to |-> NoFile, wacct |-> NoAccount, wval |-> 0,
     wbefore |-> NoFile, nwrites |-> 0, wfails |-> 0,
     appended |-> <<>>, lost |-> 0, rbfail |-> FALSE]

VARIABLES
    variant,        \* "BS" or "c2": whose code runs
    menu,           \* menu[t]: the requests thread t may be started with
    files,          \* files[a]: the final record file of account a
    tmp,            \* tmp[a]: the companion ".tmp" file of account a
    account_locks,  \* account_locks[a]: 0 no handle, n the n-th handle made for a
    global_lock,    \* holder of the registry's RLock, or NoThread
    owner,          \* the account locks held: a set of [h |-> handle, t |-> thread]
    log_lock,       \* holder of transaction_log_lock, or NoThread
    log,            \* the audit log file: a sequence of entries
    central_log,    \* the snapshot file: a sequence of <<id, balance>>
    faults,         \* I/O failures injected so far
    budget,         \* I/O failures the environment injects at most in this run
    th,             \* th[t]: thread t's position and local variables
                    \*   pc, op            position and request
                    \*   want, handles     ids to lock in order, handles obtained
                    \*   held              how many of the handles are acquired
                    \*   balance_from/to   balances read under the lock(s)
                    \*   success_from/to   results of the two persist calls
                    \*   wcall, wret       write_balance_atomic call in progress, its result
                    \*   logq              log_transaction_atomic calls still to make
                    \*   listing           account files a snapshot has still to read
                    \*   result            outcome reported to the caller
                    \*   password          (c3.py) the password the caller typed
                    \*   account_data      (c3.py) the record read to authenticate
    \* history variables (read by no action's guard)
    hist,           \* hist[t]: pre_from/pre_to the two records when t's last lock
                    \*   was acquired, wacct/wval/wbefore the account and value
                    \*   of t's latest write and the final record when it began,
                    \*   nwrites/wfails the write_balance_atomic calls made and
                    \*   those that returned False, appended the entries t put
                    \*   in the log, lost t's failed appends, rbfail a
                    \*   compensating write of t failed
    expected        \* expected[a]: balance implied by the successes reported

shared == <<files, tmp, account_locks, global_lock, owner, log_lock, log,
            central_log, faults>>
\* Fixed for the whole run.
env == <<variant, menu, budget>>
vars == <<env, shared, th, hist, expected>>


\* ----------------------------------------------------------------- helpers
\* This run executes c3.py.
Gated == variant = GatedVariant
\* read_balance: the record int() accepts, anything else reads as None.
read_balance(a) == files[a]
\* Faulty test: a missing or unparseable record is not noticed.
IsNone_Never(r) == FALSE
IsNone(r) == r.st # "ok"
\* Faulty existence probe: looks at the temp path.
Exists_Temp(a) == tmp[a].st # "absent"
\* os.path.exists on the final record.
Exists(a) == files[a].st # "absent"

\* Faulty locks: one lock stands for every account, so the holder of any
\* handle counts as the holder of h.
LockOwner_AnyLock(h) ==
    IF owner # {} THEN (CHOOSE e \in owner : TRUE).t ELSE NoThread
\* The holder of lock handle h, or NoThread.
LockOwner(h) ==
    IF \E e \in owner : e.h = h
    THEN (CHOOSE e \in owner : e.h = h).t
    ELSE NoThread

\* Faulty get_account_lock: the `not in account_locks` test is missing, every
\* call makes a new handle.
Registered_AlwaysNew(reg, id) == [reg EXCEPT ![id] = @ + 1]

\* get_account_lock's lookup-or-insert on the registry.
Registered(reg, id) ==
    IF reg[id] = 0 THEN [reg EXCEPT ![id] = @ + 1] ELSE reg

\* Faulty lock order: the call order, source first.
TransferLockOrder_Unsorted(from, to) == <<from, to>>

\* sorted([from_account, to_account])
TransferLockOrder(from, to) ==
    IF Ord(from) <= Ord(to) THEN <<from, to>> ELSE <<to, from>>

\* Faulty credit: the amount is taken off the destination too.
NewBalanceTo_Debits(balance_to, amount) == balance_to - amount

\* new_balance_from / new_balance_to of a transfer.
NewBalanceFrom(balance_from, amount) == balance_from - amount
NewBalanceTo(balance_to, amount) == balance_to + amount

\* A thread entering write_balance_atomic(acct, val).
StartWrite(acct, val) == [acct |-> acct, val |-> val, phase |-> "tmp"]

\* What os.replace(temp, final) leaves in the final record.
Replaced(final, temp) == temp

\* The operation has decided its outcome: queue its audit entries and go on to
\* append them (or straight to the exit when there are none).
Finish(r, res, entries) ==
    [r EXCEPT !.result = res, !.logq = entries,
              !.pc = IF entries = <<>> THEN "ret" ELSE "log"]

\* Thread t starts request q.
Started(q, pc0, ids) ==
    [IdleThread EXCEPT !.pc = pc0, !.op = q, !.want = ids]

\* The ledger the successes reported so far imply.
Credit(e, q) ==
    CASE q.kind = "create" -> [e EXCEPT ![q.a] = q.amt]
      [] q.kind = "deposit" -> [e EXCEPT ![q.a] = @ + q.amt]
      [] q.kind = "withdraw" -> [e EXCEPT ![q.a] = @ - q.amt]
      [] q.kind = "transfer" -> [e EXCEPT ![q.a] = @ - q.amt, ![q.b] = @ + q.amt]
      [] OTHER -> e

\* ------------------------------------------------- the lock registry and locks
\* get_account_lock(id): under global_lock, look the handle up or create it.
GetAccountLock(t) ==
    /\ th[t].pc = "getlock"
    /\ global_lock \in {NoThread, t}
    /\ LET id == th[t].want[Len(th[t].handles) + 1]
           reg == Registered(account_locks, id)
           hs == Append(th[t].handles, <<id, reg[id]>>)
       IN /\ account_locks' = reg
          /\ th' = [th EXCEPT ![t].handles = hs,
                              ![t].pc = IF Len(hs) = Len(th[t].want)
                                        THEN "acquire" ELSE "getlock"]
    /\ UNCHANGED <<env, files, tmp, global_lock, owner, log_lock, log,
                   central_log, faults, hist, expected>>

\* Faulty `with lock:` entry: it does not wait for the holder.
AcquireLock_Barging(t) ==
    /\ th[t].pc = "acquire"
    /\ LET h == th[t].handles[th[t].held + 1]
           n == th[t].held + 1
           last == n = Len(th[t].handles)
       IN /\ owner' = owner \cup {[h |-> h, t |-> t]}
          /\ th' = [th EXCEPT ![t].held = n,
                              ![t].pc = IF last THEN "locked" ELSE "acquire"]
          /\ hist' = IF last
                     THEN [hist EXCEPT
                             ![t].pre_from = files[th[t].op.a],
                             ![t].pre_to = IF th[t].op.b \in Accounts
                                           THEN files[th[t].op.b] ELSE NoFile]
                     ELSE hist
    /\ UNCHANGED <<env, files, tmp, account_locks, global_lock,
                   log_lock, log, central_log, faults, expected>>

\* `with lock:` entry: blocks until the RLock is free (or already ours).
AcquireLock(t) ==
    /\ th[t].pc = "acquire"
    /\ LET h == th[t].handles[th[t].held + 1]
           n == th[t].held + 1
           last == n = Len(th[t].handles)
       IN /\ LockOwner(h) \in {NoThread, t}
          /\ owner' = owner \cup {[h |-> h, t |-> t]}
          /\ th' = [th EXCEPT ![t].held = n,
                              ![t].pc = IF last THEN "locked" ELSE "acquire"]
          /\ hist' = IF last
                     THEN [hist EXCEPT
                             ![t].pre_from = files[th[t].op.a],
                             ![t].pre_to = IF th[t].op.b \in Accounts
                                           THEN files[th[t].op.b] ELSE NoFile]
                     ELSE hist
    /\ UNCHANGED <<env, files, tmp, account_locks, global_lock,
                   log_lock, log, central_log, faults, expected>>

\* Faulty return: only the inner `with` block is left, the outer lock of a
\* transfer stays held.
Return_KeepsOuter(t) ==
    /\ th[t].pc = "ret"
    /\ owner' = {e \in owner : e.t # t \/ (th[t].held = 2 /\ e.h = th[t].handles[1])}
    /\ th' = [th EXCEPT ![t].pc = "done", ![t].held = 0]
    /\ expected' = IF th[t].result = "Success"
                   THEN Credit(expected, th[t].op) ELSE expected
    /\ UNCHANGED <<env, files, tmp, account_locks, global_lock,
                   log_lock, log, central_log, faults, hist>>

\* The operation returns: every `with lock:` block is left, the outcome is
\* reported to the caller.
Return(t) ==
    /\ th[t].pc = "ret"
    /\ owner' = {e \in owner : e.t # t}
    /\ th' = [th EXCEPT ![t].pc = "done", ![t].held = 0]
    /\ expected' = IF th[t].result = "Success"
                   THEN Credit(expected, th[t].op) ELSE expected
    /\ UNCHANGED <<env, files, tmp, account_locks, global_lock,
                   log_lock, log, central_log, faults, hist>>

\* ------------------------------------------------------ write_balance_atomic
\* Faulty write: the new record is written straight into the final file.
WriteTemp_InPlace(t) ==
    /\ th[t].wcall.phase = "tmp"
    /\ LET a == th[t].wcall.acct
       IN \/ /\ files' = [files EXCEPT ![a] = Rec(th[t].wcall.val)]
             /\ th' = [th EXCEPT ![t].wcall.phase = "rep"]
             /\ UNCHANGED faults
          \/ /\ faults < budget
             /\ files' = [files EXCEPT ![a] = Partial]
             /\ th' = [th EXCEPT ![t].wcall.phase = "cleanup"]
             /\ faults' = faults + 1
    /\ UNCHANGED <<env, tmp, account_locks, global_lock, owner, log_lock, log,
                   central_log, hist, expected>>

\* open(temp, "w") and write: the temp file holds the new record, or an I/O
\* error leaves it missing (open failed) or cut short (write failed).
WriteTemp(t) ==
    /\ th[t].wcall.phase = "tmp"
    /\ LET a == th[t].wcall.acct
       IN \/ /\ tmp' = [tmp EXCEPT ![a] = Rec(th[t].wcall.val)]
             /\ th' = [th EXCEPT ![t].wcall.phase = "rep"]
             /\ UNCHANGED faults
          \/ /\ faults < budget
             /\ \E c \in {tmp[a], Partial} : tmp' = [tmp EXCEPT ![a] = c]
             /\ th' = [th EXCEPT ![t].wcall.phase = "cleanup"]
             /\ faults' = faults + 1
    /\ UNCHANGED <<env, files, account_locks, global_lock, owner,
                   log_lock, log, central_log, hist, expected>>

\* os.replace(temp, final): the rename swaps the record in one step, or fails.
Replace(t) ==
    /\ th[t].wcall.phase = "rep"
    /\ LET a == th[t].wcall.acct
       IN \/ /\ files' = [files EXCEPT ![a] = Replaced(files[a], tmp[a])]
             /\ tmp' = [tmp EXCEPT ![a] = NoFile]
             /\ th' = [th EXCEPT ![t].wcall = NoWrite, ![t].wret = TRUE]
             /\ UNCHANGED faults
          \/ /\ faults < budget
             /\ th' = [th EXCEPT ![t].wcall.phase = "cleanup"]
             /\ faults' = faults + 1
             /\ UNCHANGED <<files, tmp>>
    /\ UNCHANGED <<env, account_locks, global_lock, owner, log_lock,
                   log, central_log, hist, expected>>

\* Faulty cleanup: the final record is removed instead of the temp file.
Cleanup_RemovesFinal(t) ==
    /\ th[t].wcall.phase = "cleanup"
    /\ files' = [files EXCEPT ![th[t].wcall.acct] = NoFile]
    /\ th' = [th EXCEPT ![t].wcall = NoWrite, ![t].wret = FALSE]
    /\ hist' = [hist EXCEPT ![t].wfails = @ + 1]
    /\ UNCHANGED <<env, tmp, account_locks, global_lock, owner,
                   log_lock, log, central_log, faults, expected>>

\* Faulty cleanup: the temp file is left behind.
Cleanup_KeepsTemp(t) ==
    /\ th[t].wcall.phase = "cleanup"
    /\ th' = [th EXCEPT ![t].wcall = NoWrite, ![t].wret = FALSE]
    /\ hist' = [hist EXCEPT ![t].wfails = @ + 1]
    /\ UNCHANGED <<env, files, tmp, account_locks, global_lock, owner,
                   log_lock, log, central_log, faults, expected>>

\* except: remove the temp file if it exists, return False.
Cleanup(t) ==
    /\ th[t].wcall.phase = "cleanup"
    /\ tmp' = [tmp EXCEPT ![th[t].wcall.acct] = NoFile]
    /\ th' = [th EXCEPT ![t].wcall = NoWrite, ![t].wret = FALSE]
    /\ hist' = [hist EXCEPT ![t].wfails = @ + 1]
    /\ UNCHANGED <<env, files, account_locks, global_lock, owner,
                   log_lock, log, central_log, faults, expected>>

\* A write_balance_atomic call has returned to the operation that made it.
WriteReturned(t, at) == th[t].pc = at /\ th[t].wcall.phase = "none"

\* The operation calls write_balance_atomic(acct, val) and goes on at `next`.
CallWrite(r, acct, val, next) ==
    [r EXCEPT !.wcall = StartWrite(acct, val), !.pc = next]
NoteWrite(h, r) ==
    [h EXCEPT !.wacct = r.wcall.acct, !.wval = r.wcall.val,
              !.wbefore = files[r.wcall.acct], !.nwrites = @ + 1]

\* ---------------------------------------------------- log_transaction_atomic
\* Faulty acquire: the audit lock is taken without waiting for its holder.
LogAcquire_NoWait(t) ==
    /\ th[t].pc = "log"
    /\ log_lock' = t
    /\ th' = [th EXCEPT ![t].pc = "logging"]
    /\ UNCHANGED <<env, files, tmp, account_locks, global_lock, owner,
                   log, central_log, faults, hist, expected>>

\* `with transaction_log_lock:` entry.
LogAcquire(t) ==
    /\ th[t].pc = "log"
    /\ log_lock = NoThread
    /\ log_lock' = t
    /\ th' = [th EXCEPT ![t].pc = "logging"]
    /\ UNCHANGED <<env, files, tmp, account_locks, global_lock, owner,
                   log, central_log, faults, hist, expected>>

\* Faulty append: an I/O error is not swallowed, the operation ends in failure.
LogWrite_Raises(t) ==
    /\ th[t].pc = "logging"
    /\ log_lock = t
    /\ \/ /\ log' = Append(log, Head(th[t].logq))
          /\ hist' = [hist EXCEPT ![t].appended = Append(@, Head(th[t].logq))]
          /\ th' = [th EXCEPT ![t].logq = Tail(@),
                              ![t].pc = IF Tail(th[t].logq) = <<>>
                                        THEN "ret" ELSE "log"]
          /\ UNCHANGED faults
       \/ /\ faults < budget
          /\ faults' = faults + 1
          /\ hist' = [hist EXCEPT ![t].lost = @ + 1]
          /\ th' = [th EXCEPT ![t].logq = <<>>, ![t].pc = "ret",
                              ![t].result = "IoFailure"]
          /\ UNCHANGED log
    /\ log_lock' = NoThread
    /\ UNCHANGED <<env, files, tmp, account_locks, global_lock, owner,
                   central_log, expected>>

\* Faulty append: the audit lock is not released.
LogWrite_KeepsLock(t) ==
    /\ th[t].pc = "logging"
    /\ log_lock = t
    /\ \/ /\ log' = Append(log, Head(th[t].logq))
          /\ hist' = [hist EXCEPT ![t].appended = Append(@, Head(th[t].logq))]
          /\ UNCHANGED faults
       \/ /\ faults < budget
          /\ faults' = faults + 1
          /\ hist' = [hist EXCEPT ![t].lost = @ + 1]
          /\ UNCHANGED log
    /\ th' = [th EXCEPT ![t].logq = Tail(@),
                        ![t].pc = IF Tail(th[t].logq) = <<>> THEN "ret" ELSE "log"]
    /\ UNCHANGED <<env, files, tmp, account_locks, global_lock, owner,
                   log_lock, central_log, expected>>

\* The append itself (an I/O error is swallowed), then the lock is released.
LogWrite(t) ==
    /\ th[t].pc = "logging"
    /\ log_lock = t
    /\ \/ /\ log' = Append(log, Head(th[t].logq))
          /\ hist' = [hist EXCEPT ![t].appended = Append(@, Head(th[t].logq))]
          /\ UNCHANGED faults
       \/ /\ faults < budget
          /\ faults' = faults + 1
          /\ hist' = [hist EXCEPT ![t].lost = @ + 1]
          /\ UNCHANGED log
    /\ log_lock' = NoThread
    /\ th' = [th EXCEPT ![t].logq = Tail(@),
                        ![t].pc = IF Tail(th[t].logq) = <<>> THEN "ret" ELSE "log"]
    /\ UNCHANGED <<env, files, tmp, account_locks, global_lock, owner,
                   central_log, expected>>


\* ------------------------------------------------------------ create_account
CreateCall(t) ==
    /\ th[t].pc = "idle"
    /\ \E q \in menu[t] :
          /\ q.kind = "create"
          /\ th' = [th EXCEPT ![t] = Started(q, "getlock", <<q.a>>)]
    /\ UNCHANGED <<env, shared, hist, expected>>

\* Under the lock: an existing file ends the call, else the record is written.
CreateCheck(t) ==
    /\ th[t].pc = "locked"
    /\ th[t].op.kind = "create"
    /\ LET q == th[t].op
       IN IF Exists(q.a)
          THEN /\ th' = [th EXCEPT ![t] = Finish(@, "AlreadyExists", <<>>)]
               /\ UNCHANGED hist
          ELSE /\ th' = [th EXCEPT ![t] = CallWrite(@, q.a, q.amt, "created")]
               /\ hist' = [hist EXCEPT ![t] = NoteWrite(@, th'[t])]
    /\ UNCHANGED <<env, shared, expected>>

CreateWrote(t) ==
    /\ WriteReturned(t, "created")
    /\ LET q == th[t].op
           e(status) == Entry("Create Account", q.a, "Initial balance",
                              NoAccount, q.amt, status)
       IN th' = [th EXCEPT ![t] =
                   IF th[t].wret
                   THEN Finish(@, "Success", <<e("Success")>>)
                   ELSE Finish(@, "IoFailure", <<e("Failed")>>)]
    /\ UNCHANGED <<env, shared, hist, expected>>

\* ------------------------------------------------------------------- deposit
DepositCall(t) ==
    /\ th[t].pc = "idle"
    /\ ~Gated
    /\ \E q \in menu[t] :
          /\ q.kind = "deposit"
          /\ th' = [th EXCEPT ![t] = Started(q, "getlock", <<q.a>>)]
    /\ UNCHANGED <<env, shared, hist, expected>>

\* The entries an early failure appends: BS.py logs it, c2.py only calls back.
EarlyFailure(e) == IF variant = "BS" THEN <<e>> ELSE <<>>

DepositRead(t) ==
    /\ th[t].pc = "locked"
    /\ ~Gated
    /\ th[t].op.kind = "deposit"
    /\ LET q == th[t].op
           balance == read_balance(q.a)
           e == Entry("Deposit", q.a, "Amount", NoAccount, q.amt, "Failed")
       IN IF IsNone(balance)
          THEN /\ th' = [th EXCEPT ![t] =
                           Finish(@, "NoSuchAccount", EarlyFailure(e))]
               /\ UNCHANGED hist
          ELSE /\ th' = [th EXCEPT ![t] =
                           CallWrite([@ EXCEPT !.balance_from = balance.bal],
                                     q.a, balance.bal + q.amt, "deposited")]
               /\ hist' = [hist EXCEPT ![t] = NoteWrite(@, th'[t])]
    /\ UNCHANGED <<env, shared, expected>>

DepositWrote(t) ==
    /\ WriteReturned(t, "deposited")
    /\ LET q == th[t].op
           e(status) == Entry("Deposit", q.a, "Amount", NoAccount, q.amt, status)
       IN th' = [th EXCEPT ![t] =
                   IF th[t].wret
                   THEN Finish(@, "Success", <<e("Success")>>)
                   ELSE Finish(@, "IoFailure", <<e("Failed")>>)]
    /\ UNCHANGED <<env, shared, hist, expected>>

\* ------------------------------------------------------------------ withdraw
WithdrawCall(t) ==
    /\ th[t].pc = "idle"
    /\ ~Gated
    /\ \E q \in menu[t] :
          /\ q.kind = "withdraw"
          /\ th' = [th EXCEPT ![t] = Started(q, "getlock", <<q.a>>)]
    /\ UNCHANGED <<env, shared, hist, expected>>

\* Faulty funds checks: none at all, and off by one.
Insufficient_Never(balance, amount) == FALSE
Insufficient_OffByOne(balance, amount) == balance <= amount

\* `balance < amount`: the withdrawal is refused.
Insufficient(balance, amount) == balance < amount

WithdrawRead(t) ==
    /\ th[t].pc = "locked"
    /\ ~Gated
    /\ th[t].op.kind = "withdraw"
    /\ LET q == th[t].op
           balance == read_balance(q.a)
           e == Entry("Withdraw", q.a, "Amount", NoAccount, q.amt, "Failed")
       IN IF IsNone(balance)
          THEN /\ th' = [th EXCEPT ![t] =
                           Finish(@, "NoSuchAccount", EarlyFailure(e))]
               /\ UNCHANGED hist
          ELSE IF Insufficient(balance.bal, q.amt)
          THEN /\ th' = [th EXCEPT ![t] =
                           Finish([@ EXCEPT !.balance_from = balance.bal],
                                  "InsufficientFunds", EarlyFailure(e))]
               /\ UNCHANGED hist
          ELSE /\ th' = [th EXCEPT ![t] =
                           CallWrite([@ EXCEPT !.balance_from = balance.bal],
                                     q.a, balance.bal - q.amt, "withdrew")]
               /\ hist' = [hist EXCEPT ![t] = NoteWrite(@, th'[t])]
    /\ UNCHANGED <<env, shared, expected>>

WithdrawWrote(t) ==
    /\ WriteReturned(t, "withdrew")
    /\ LET q == th[t].op
           e(status) == Entry("Withdraw", q.a, "Amount", NoAccount, q.amt, status)
       IN th' = [th EXCEPT ![t] =
                   IF th[t].wret
                   THEN Finish(@, "Success", <<e("Success")>>)
                   ELSE Finish(@, "IoFailure", <<e("Failed")>>)]
    /\ UNCHANGED <<env, shared, hist, expected>>


\* ------------------------------------------------------------------ transfer
TransferSelf(q) ==
    Entry("Transfer", q.a, "Attempted to transfer to self", NoAccount, q.amt,
          "Failed")
\* Faulty second entry: attributed to the source again.
TransferIn_WrongSide(q, status) ==
    Entry("Transfer", q.a, "From", q.a, q.amt, status)
TransferOut(q, status) == Entry("Transfer", q.a, "To", q.b, q.amt, status)
TransferIn(q, status) == Entry("Transfer", q.b, "From", q.a, q.amt, status)

\* from_account == to_account ends the call before any lock is asked for.
TransferCall(t) ==
    /\ th[t].pc = "idle"
    /\ ~Gated
    /\ \E q \in menu[t] :
          /\ q.kind = "transfer"
          /\ th' = [th EXCEPT ![t] =
                      IF q.a = q.b
                      THEN Finish(Started(q, "idle", <<>>), "SameAccount",
                                  EarlyFailure(TransferSelf(q)))
                      ELSE Started(q, "getlock", TransferLockOrder(q.a, q.b))]
    /\ UNCHANGED <<env, shared, hist, expected>>

\* Both locks held: read both balances, validate, start the debit. c3.py
\* calls .get("balance") on what it read, which raises when a record is
\* missing: the exception ends the thread, nothing is reported or logged.
TransferRead(t) ==
    /\ th[t].pc = "locked"
    /\ th[t].op.kind = "transfer"
    /\ LET q == th[t].op
           balance_from == read_balance(q.a)
           balance_to == read_balance(q.b)
           failed == EarlyFailure(TransferOut(q, "Failed"))
       IN IF IsNone(balance_from) \/ IsNone(balance_to)
          THEN /\ th' = [th EXCEPT ![t] =
                           Finish(@, IF Gated THEN "Exception"
                                     ELSE "NoSuchAccount", failed)]
               /\ UNCHANGED hist
          ELSE IF Insufficient(balance_from.bal, q.amt)
          THEN /\ th' = [th EXCEPT ![t] =
                           Finish([@ EXCEPT !.balance_from = balance_from.bal,
                                            !.balance_to = balance_to.bal],
                                  "InsufficientFunds", failed)]
               /\ UNCHANGED hist
          ELSE /\ th' = [th EXCEPT ![t] =
                           CallWrite([@ EXCEPT !.balance_from = balance_from.bal,
                                               !.balance_to = balance_to.bal],
                                     q.a, NewBalanceFrom(balance_from.bal, q.amt),
                                     "wrote_from")]
               /\ hist' = [hist EXCEPT ![t] = NoteWrite(@, th'[t])]
    /\ UNCHANGED <<env, shared, expected>>

\* success_from is known; the credit is written whatever it is.
TransferWroteFrom(t) ==
    /\ WriteReturned(t, "wrote_from")
    /\ LET q == th[t].op
       IN /\ th' = [th EXCEPT ![t] =
                      CallWrite([@ EXCEPT !.success_from = th[t].wret],
                                q.b, NewBalanceTo(th[t].balance_to, q.amt),
                                "wrote_to")]
          /\ hist' = [hist EXCEPT ![t] = NoteWrite(@, th'[t])]
    /\ UNCHANGED <<env, shared, expected>>

\* Faulty outcome step: a failed persist is reported without the compensating
\* write.
TransferWroteTo_NoRollback(t) ==
    /\ WriteReturned(t, "wrote_to")
    /\ LET q == th[t].op
           r == [th[t] EXCEPT !.success_to = th[t].wret]
       IN th' = [th EXCEPT ![t] =
                   IF r.success_from /\ r.success_to
                   THEN Finish(r, "Success", <<TransferOut(q, "Success"),
                                               TransferIn(q, "Success")>>)
                   ELSE Finish(r, "IoFailure", <<TransferOut(q, "Failed"),
                                                 TransferIn(q, "Failed")>>)]
    /\ UNCHANGED <<env, shared, hist, expected>>

\* success_to is known: two Success entries, or the rollback of the side that
\* was written.
TransferWroteTo(t) ==
    /\ WriteReturned(t, "wrote_to")
    /\ LET q == th[t].op
           r == [th[t] EXCEPT !.success_to = th[t].wret]
       IN IF r.success_from /\ r.success_to
          THEN /\ th' = [th EXCEPT ![t] =
                           Finish(r, "Success", <<TransferOut(q, "Success"),
                                                  TransferIn(q, "Success")>>)]
               /\ UNCHANGED hist
          ELSE IF r.success_from
          THEN /\ th' = [th EXCEPT ![t] =
                           CallWrite(r, q.a, r.balance_from, "rolled_from")]
               /\ hist' = [hist EXCEPT ![t] = NoteWrite(@, th'[t])]
          ELSE IF r.success_to
          THEN /\ th' = [th EXCEPT ![t] =
                           CallWrite(r, q.b, r.balance_to, "rolled_to")]
               /\ hist' = [hist EXCEPT ![t] = NoteWrite(@, th'[t])]
          ELSE /\ th' = [th EXCEPT ![t] =
                           Finish(r, "IoFailure", <<TransferOut(q, "Failed"),
                                                    TransferIn(q, "Failed")>>)]
               /\ UNCHANGED hist
    /\ UNCHANGED <<env, shared, expected>>

\* The compensating write of the source returned (its result is not looked at).
TransferRolledBackFrom(t) ==
    /\ WriteReturned(t, "rolled_from")
    /\ LET q == th[t].op
       IN IF th[t].success_to
          THEN /\ th' = [th EXCEPT ![t] =
                           CallWrite(@, q.b, th[t].balance_to, "rolled_to")]
               /\ hist' = [hist EXCEPT ![t] =
                             NoteWrite([@ EXCEPT !.rbfail = @ \/ ~th[t].wret],
                                       th'[t])]
          ELSE /\ th' = [th EXCEPT ![t] =
                           Finish(@, "IoFailure", <<TransferOut(q, "Failed"),
                                                    TransferIn(q, "Failed")>>)]
               /\ hist' = [hist EXCEPT ![t].rbfail = @ \/ ~th[t].wret]
    /\ UNCHANGED <<env, shared, expected>>

\* The compensating write of the destination returned.
TransferRolledBackTo(t) ==
    /\ WriteReturned(t, "rolled_to")
    /\ LET q == th[t].op
       IN /\ th' = [th EXCEPT ![t] =
                      Finish(@, "IoFailure", <<TransferOut(q, "Failed"),
                                               TransferIn(q, "Failed")>>)]
          /\ hist' = [hist EXCEPT ![t].rbfail = @ \/ ~th[t].wret]
    /\ UNCHANGED <<env, shared, expected>>

\* -------------------------------------------------------------- view_balance
ViewCall(t) ==
    /\ th[t].pc = "idle"
    /\ ~Gated
    /\ \E q \in menu[t] :
          /\ q.kind = "view"
          /\ th' = [th EXCEPT ![t] = Started(q, "view", <<>>)]
    /\ UNCHANGED <<env, shared, hist, expected>>

\* Faulty view: it reads only while nobody holds the account's lock.
ViewRead_Locked(t) ==
    /\ th[t].pc = "view"
    /\ LockOwner(<<th[t].op.a, account_locks[th[t].op.a]>>) = NoThread
    /\ LET q == th[t].op
           balance == read_balance(q.a)
       IN th' = [th EXCEPT ![t] =
                   IF ~IsNone(balance)
                   THEN Finish([@ EXCEPT !.balance_from = balance.bal], "Success",
                               <<Entry("View Balance", q.a, "Balance", NoAccount,
                                       balance.bal, "Success")>>)
                   ELSE Finish(@, "NoSuchAccount", <<>>)]
    /\ UNCHANGED <<env, shared, hist, expected>>

\* The read takes no lock. BS.py logs only a found balance; c2.py also logs the
\* failure.
ViewRead(t) ==
    /\ th[t].pc = "view"
    /\ LET q == th[t].op
           balance == read_balance(q.a)
       IN th' = [th EXCEPT ![t] =
                   IF ~IsNone(balance)
                   THEN Finish([@ EXCEPT !.balance_from = balance.bal], "Success",
                               <<Entry("View Balance", q.a, "Balance", NoAccount,
                                       balance.bal, "Success")>>)
                   ELSE Finish(@, "NoSuchAccount",
                               IF variant = "BS" THEN <<>>
                               ELSE <<Entry("View Balance", q.a,
                                            "Account does not exist", NoAccount,
                                            0, "Failed")>>)]
    /\ UNCHANGED <<env, shared, hist, expected>>

\* ------------------------------------------- the credential gate of c3.py
\* The salt and the password an account's record carries. create_account
\* draws a fresh salt; an account is only ever created once, so both are fixed
\* per account.
Salt(a) == <<"salt", a>>
Password(a) == "pw1"
\* hash_password / verify_password: the digest of salt + password.
hash_password(salt, password) == <<"sha256", salt, password>>
\* Faulty check: any attempt passes.
verify_password_Always(stored_salt, stored_hash, password_attempt) == TRUE
verify_password(stored_salt, stored_hash, password_attempt) ==
    hash_password(stored_salt, password_attempt) = stored_hash
\* read_account_data: the record json.load accepts, with its credentials.
read_account_data(a) ==
    [rec |-> files[a], salt |-> Salt(a),
     password_hash |-> hash_password(Salt(a), Password(a))]

\* deposit, withdraw, transfer or view of c3.py is called with a password.
GatedCall(t) ==
    /\ th[t].pc = "idle"
    /\ Gated
    /\ \E q \in menu[t], p \in Passwords :
          /\ q.kind \in {"deposit", "withdraw", "transfer", "view"}
          /\ th' = [th EXCEPT ![t] =
                      IF q.kind = "transfer" /\ q.a = q.b
                      THEN Finish([Started(q, "idle", <<>>) EXCEPT !.password = p],
                                  "SameAccount", <<>>)
                      ELSE [Started(q, "auth", <<>>) EXCEPT !.password = p]]
    /\ UNCHANGED <<env, shared, hist, expected>>

\* The record is read with no lock held and the password checked against it.
\* A view answers from that record; the other operations go on to the lock(s).
Authenticate(t) ==
    /\ th[t].pc = "auth"
    /\ LET q == th[t].op
           account_data == read_account_data(q.a)
           r == [th[t] EXCEPT !.account_data = account_data.rec]
       IN th' = [th EXCEPT ![t] =
                   IF IsNone(account_data.rec)
                   THEN Finish(@, "NoSuchAccount", <<>>)
                   ELSE IF ~verify_password(account_data.salt,
                                            account_data.password_hash,
                                            th[t].password)
                   THEN Finish(@, "IncorrectPassword", <<>>)
                   ELSE IF q.kind = "view"
                   THEN Finish(r, "Success",
                               <<Entry("View Balance", q.a, "Balance", NoAccount,
                                       account_data.rec.bal, "Success")>>)
                   ELSE [r EXCEPT !.pc = "getlock",
                                  !.want = IF q.kind = "transfer"
                                           THEN TransferLockOrder(q.a, q.b)
                                           ELSE <<q.a>>]]
    /\ UNCHANGED <<env, shared, hist, expected>>

\* Under the lock, deposit of c3.py computes the new balance from the record
\* it read to authenticate.
GatedDeposit(t) ==
    /\ th[t].pc = "locked"
    /\ Gated
    /\ th[t].op.kind = "deposit"
    /\ LET q == th[t].op
           balance == th[t].account_data.bal
       IN th' = [th EXCEPT ![t] =
                   CallWrite([@ EXCEPT !.balance_from = balance],
                             q.a, balance + q.amt, "deposited")]
    /\ hist' = [hist EXCEPT ![t] = NoteWrite(@, th'[t])]
    /\ UNCHANGED <<env, shared, expected>>

\* withdraw of c3.py likewise; a refusal is reported but not logged.
GatedWithdraw(t) ==
    /\ th[t].pc = "locked"
    /\ Gated
    /\ th[t].op.kind = "withdraw"
    /\ LET q == th[t].op
           balance == th[t].account_data.bal
       IN IF Insufficient(balance, q.amt)
          THEN /\ th' = [th EXCEPT ![t] =
                           Finish([@ EXCEPT !.balance_from = balance],
                                  "InsufficientFunds", <<>>)]
               /\ UNCHANGED hist
          ELSE /\ th' = [th EXCEPT ![t] =
                           CallWrite([@ EXCEPT !.balance_from = balance],
                                     q.a, balance - q.amt, "withdrew")]
               /\ hist' = [hist EXCEPT ![t] = NoteWrite(@, th'[t])]
    /\ UNCHANGED <<env, shared, expected>>

\* ------------------------------------------------------ generate_central_log
\* open(central_log_path, "w") truncates the snapshot file.
SnapshotCall(t) ==
    /\ th[t].pc = "idle"
    /\ \E q \in menu[t] :
          /\ q.kind = "snapshot"
          /\ th' = [th EXCEPT ![t] = Started(q, "snap_list", <<>>)]
    /\ central_log' = <<>>
    /\ UNCHANGED <<env, files, tmp, account_locks, global_lock, owner,
                   log_lock, log, faults, hist, expected>>

\* os.listdir(ACCOUNTS_DIR): the record files, the temp files of writes in
\* progress, the snapshot file itself (just opened) and the audit log.
ListDir ==
    {get_account_filepath(a) : a \in {b \in Accounts : Exists(b)}}
    \cup {TempPath(a) : a \in {b \in Accounts : tmp[b].st # "absent"}}
    \cup {CentralLogPath}
    \cup (IF log = <<>> THEN {} ELSE {TransactionLogPath})
\* The account ids the loop goes on to read: the entries that pass the test,
\* with ".txt" taken out. (An id that names no account reads as None.)
ListedIds ==
    {a \in Accounts :
        \E f \in ListDir : IsAccountFile(f) /\ AccountIdOf(f) = Pieces(a)}

\* The directory is listed. c2.py and c3.py take global_lock first and keep it
\* while they read.
SnapshotList(t) ==
    /\ th[t].pc = "snap_list"
    /\ IF variant \in {"c2", GatedVariant}
       THEN global_lock \in {NoThread, t} /\ global_lock' = t
       ELSE UNCHANGED global_lock
    /\ th' = [th EXCEPT ![t].listing = ListedIds,
                        ![t].pc = "snap_read"]
    /\ UNCHANGED <<env, files, tmp, account_locks, owner, log_lock,
                   log, central_log, faults, hist, expected>>

\* One read_balance of the listing, written out when it is not None.
SnapshotRead(t) ==
    /\ th[t].pc = "snap_read"
    /\ \E a \in th[t].listing :
          LET balance == read_balance(a)
          IN /\ central_log' = IF IsNone(balance) THEN central_log
                               ELSE Append(central_log, <<a, balance.bal>>)
             /\ th' = [th EXCEPT ![t].listing = @ \ {a}]
    /\ UNCHANGED <<env, files, tmp, account_locks, global_lock, owner,
                   log_lock, log, faults, hist, expected>>

\* The listing is exhausted: the file is closed (and c2.py's global_lock left).
SnapshotClose(t) ==
    /\ th[t].pc = "snap_read"
    /\ th[t].listing = {}
    /\ global_lock' = IF global_lock = t THEN NoThread ELSE global_lock
    /\ th' = [th EXCEPT ![t] = Finish(@, "Success", <<>>)]
    /\ UNCHANGED <<env, files, tmp, account_locks, owner, log_lock,
                   log, central_log, faults, hist, expected>>

\* ------------------------------------------------------------- the workload
Amounts == 1 .. MaxAmount
\* The store at start: A holds MaxAmount, B holds 1, C and D have no record.
InitialFiles ==
    [a \in Accounts |->
        CASE a = "A" -> Rec(MaxAmount) [] a = "B" -> Rec(1) [] OTHER -> NoFile]
\* A store in which A, B and C each hold 1 and D has no record.
CycleFiles ==
    [a \in Accounts |-> IF a = "D" THEN NoFile ELSE Rec(1)]

\* Requests of a mutating caller.
MutatorMenu ==
    {Req("create", a, NoAccount, n) : a \in {"A", "C"}, n \in Amounts}
    \cup {Req("deposit", a, NoAccount, n) : a \in {"A"}, n \in Amounts}
    \cup {Req("deposit", "C", NoAccount, 1)}
    \cup {Req("withdraw", a, NoAccount, n) : a \in {"A", "B"}, n \in Amounts}
    \cup {Req("withdraw", "C", NoAccount, 1)}
    \cup {Req("transfer", "A", "B", n) : n \in Amounts}
    \cup {Req("transfer", "B", "A", n) : n \in Amounts}
    \cup {Req("transfer", "A", "C", 1), Req("transfer", "A", "A", 1)}
\* Requests of a reading caller.
ObserverMenu ==
    {Req("view", "A", NoAccount, 0), Req("view", "C", NoAccount, 0),
     Req("snapshot", NoAccount, NoAccount, 0)}

\* Two concurrent callers: one mutates, the other mutates or reads.
Workload ==
    [t \in Threads |->
        CASE t = "t1" -> MutatorMenu
          [] t = "t2" -> MutatorMenu \cup ObserverMenu
          [] OTHER -> {}]

\* Three concurrent callers whose transfers form the cycle A->B, B->C, C->A,
\* or who run one of the other operations instead.
CycleWorkload ==
    [t \in Threads |->
        CASE t = "t1" -> {Req("transfer", "A", "B", 1),
                          Req("create", "D", NoAccount, 1)}
          [] t = "t2" -> {Req("transfer", "B", "C", 1),
                          Req("deposit", "B", NoAccount, 1),
                          Req("snapshot", NoAccount, NoAccount, 0)}
          [] OTHER -> {Req("transfer", "C", "A", 1),
                       Req("withdraw", "A", NoAccount, 1),
                       Req("view", "A", NoAccount, 0)}]

InitWith(w, f, store) ==
    /\ variant \in Variants
    /\ menu = w
    /\ budget = f
    /\ files = store
    /\ tmp = [a \in Accounts |-> NoFile]
    /\ account_locks = [a \in Accounts |-> 0]
    /\ global_lock = NoThread
    /\ owner = {}
    /\ log_lock = NoThread
    /\ log = <<>>
    /\ central_log = <<>>
    /\ faults = 0
    /\ th = [t \in Threads |-> IdleThread]
    /\ hist = [t \in Threads |-> NoHistory]
    /\ expected = [a \in Accounts |-> store[a].bal]

Init == InitWith(Workload, MaxFaults, InitialFiles)

Next ==
    \E t \in Threads :
        \/ CreateCall(t) \/ CreateCheck(t) \/ CreateWrote(t)
        \/ DepositCall(t) \/ DepositRead(t) \/ DepositWrote(t)
        \/ WithdrawCall(t) \/ WithdrawRead(t) \/ WithdrawWrote(t)
        \/ TransferCall(t) \/ TransferRead(t) \/ TransferWroteFrom(t)
        \/ TransferWroteTo(t) \/ TransferRolledBackFrom(t)
        \/ TransferRolledBackTo(t)
        \/ ViewCall(t) \/ ViewRead(t)
        \/ SnapshotCall(t) \/ SnapshotList(t) \/ SnapshotRead(t)
        \/ SnapshotClose(t)
        \/ GetAccountLock(t) \/ AcquireLock(t) \/ Return(t)
        \/ WriteTemp(t) \/ Replace(t) \/ Cleanup(t)
        \/ LogAcquire(t) \/ LogWrite(t)

Spec == Init /\ [][Next]_vars

\* The same engine under the cycle workload, with at most one I/O failure.
InitCycle == InitWith(CycleWorkload, 1, CycleFiles)
SpecCycle == InitCycle /\ [][Next]_vars


\* Two callers start transfer(A, B, x) and transfer(B, A, y) together on a
\* healthy disk; the scheduler lets every thread that can take a step take one.
LiveWorkload ==
    [t \in Threads |->
        CASE t = "t1" -> {Req("transfer", "A", "B", n) : n \in Amounts}
          [] t = "t2" -> {Req("transfer", "B", "A", n) : n \in Amounts}
          [] OTHER -> {}]
InitLive == InitWith(LiveWorkload, 0, InitialFiles)
StepLive(t) ==
    \/ TransferCall(t) \/ GetAccountLock(t) \/ AcquireLock(t)
    \/ TransferRead(t) \/ TransferWroteFrom(t) \/ TransferWroteTo(t)
    \/ WriteTemp(t) \/ Replace(t)
    \/ LogAcquire(t) \/ LogWrite(t) \/ Return(t)
NextLive == \E t \in Threads : StepLive(t)
SpecLive ==
    InitLive /\ [][NextLive]_vars /\ \A t \in Threads : WF_vars(StepLive(t))

\* The three variants side by side: two callers who deposit, withdraw and
\* transfer (typing either password where one is asked for); the second may
\* create, view or take a snapshot instead.
AllVariants == Variants \cup {GatedVariant}
GatedWorkload ==
    [t \in Threads |->
        CASE t = "t1" -> {Req("deposit", "A", NoAccount, 1),
                          Req("withdraw", "A", NoAccount, MaxAmount),
                          Req("transfer", "A", "B", 1),
                          Req("transfer", "A", "A", 1),
                          Req("transfer", "A", "C", 1),
                          Req("deposit", "C", NoAccount, 1)}
          [] t = "t2" -> {Req("deposit", "A", NoAccount, 1),
                          Req("withdraw", "A", NoAccount, MaxAmount),
                          Req("transfer", "B", "A", 1),
                          Req("create", "C", NoAccount, 1),
                          Req("view", "A", NoAccount, 0),
                          Req("snapshot", NoAccount, NoAccount, 0)}
          [] OTHER -> {}]
InitAll ==
    /\ variant \in AllVariants
    /\ menu = GatedWorkload
    /\ budget = MaxFaults
    /\ files = InitialFiles
    /\ tmp = [a \in Accounts |-> NoFile]
    /\ account_locks = [a \in Accounts |-> 0]
    /\ global_lock = NoThread
    /\ owner = {}
    /\ log_lock = NoThread
    /\ log = <<>>
    /\ central_log = <<>>
    /\ faults = 0
    /\ th = [t \in Threads |-> IdleThread]
    /\ hist = [t \in Threads |-> NoHistory]
    /\ expected = [a \in Accounts |-> InitialFiles[a].bal]
NextAll ==
    \/ Next
    \/ \E t \in Threads :
          \/ GatedCall(t) \/ Authenticate(t)
          \/ GatedDeposit(t) \/ GatedWithdraw(t)
SpecAll == InitAll /\ [][NextAll]_vars

\* A store found with a damaged record: A and A_log hold MaxAmount, B's file
\* holds text int() rejects, C has no record, D holds 1.
CorruptFiles ==
    [a \in Accounts |->
        CASE a \in {"A", "A_log"} -> Rec(MaxAmount) [] a = "B" -> Partial
          [] a = "D" -> Rec(1) [] OTHER -> NoFile]
CorruptWorkload ==
    [t \in Threads |->
        CASE t = "t1" -> {Req("create", "B", NoAccount, 1),
                          Req("deposit", "B", NoAccount, 1),
                          Req("withdraw", "B", NoAccount, 1),
                          Req("transfer", "A", "B", 1),
                          Req("transfer", "B", "A", 1),
                          Req("transfer", "A", "D", 1),
                          Req("view", "B", NoAccount, 0)}
          [] t = "t2" -> {Req("create", "B", NoAccount, MaxAmount),
                          Req("create", "C", NoAccount, 1),
                          Req("deposit", "A", NoAccount, 1),
                          Req("withdraw", "A", NoAccount, 1),
                          Req("transfer", "D", "A", 1),
                          Req("snapshot", NoAccount, NoAccount, 0)}
          [] OTHER -> {}]
InitCorrupt == InitWith(CorruptWorkload, MaxFaults, CorruptFiles)
SpecCorrupt == InitCorrupt /\ [][Next]_vars

\* Every caller creates the same new account C, each with a balance of its
\* choice.
CreateWorkload ==
    [t \in Threads |-> {Req("create", "C", NoAccount, n) : n \in Amounts}]
InitCreate == InitWith(CreateWorkload, MaxFaults, InitialFiles)
StepCreate(t) ==
    \/ CreateCall(t) \/ GetAccountLock(t) \/ AcquireLock(t)
    \/ CreateCheck(t) \/ CreateWrote(t)
    \/ WriteTemp(t) \/ Replace(t) \/ Cleanup(t)
    \/ LogAcquire(t) \/ LogWrite(t) \/ Return(t)
NextCreate == \E t \in Threads : StepCreate(t)
SpecCreate == InitCreate /\ [][NextCreate]_vars

\* ===================================================================== claims
Running(t) == th[t].pc \notin {"idle", "done"}
Quiescent == \A t \in Threads : ~Running(t)
NoWriteFailed == \A t \in Threads : hist[t].wfails = 0
\* Thread t is about to leave its `with lock:` block(s) and report.
AtExit(t) == th[t].pc = "ret"
Reported(t, kind, res) ==
    /\ th[t].pc \in {"ret", "done"}
    /\ th[t].op.kind = kind
    /\ th[t].result = res

RECURSIVE SumOver(_, _)
SumOver(S, f) ==
    IF S = {} THEN 0
    ELSE LET x == CHOOSE y \in S : TRUE IN f[x] + SumOver(S \ {x}, f)

\* What thread t's deposit or withdrawal, if it reported success, did to a.
Delta(a) ==
    [t \in Threads |->
        IF th[t].pc = "done" /\ th[t].result = "Success" /\ th[t].op.a = a
        THEN CASE th[t].op.kind = "deposit" -> th[t].op.amt
               [] th[t].op.kind = "withdraw" -> 0 - th[t].op.amt
               [] OTHER -> 0
        ELSE 0]
OnlyDepositsAndWithdrawals ==
    \A t \in Threads : th[t].op.kind \in {"none", "deposit", "withdraw"}

\* C1: once every concurrent deposit and withdrawal on an existing account has
\* returned, with no write failure, the stored balance is the initial balance
\* plus the deposits that reported success minus the withdrawals that reported
\* success; and a withdrawal that reports success asked for no more than the
\* balance the account had when the withdrawal took the lock.
C1_NoLostUpdate ==
    /\ (Quiescent /\ NoWriteFailed /\ OnlyDepositsAndWithdrawals) =>
          \A a \in Accounts :
             InitialFiles[a].st = "ok" =>
                files[a] = Rec(InitialFiles[a].bal + SumOver(Threads, Delta(a)))
    /\ \A t \in Threads :
          Reported(t, "withdraw", "Success") =>
             /\ hist[t].pre_from.st = "ok"
             /\ th[t].op.amt <= hist[t].pre_from.bal
\* Two callers have both changed A and returned.
C1_Witness ==
    /\ Quiescent /\ NoWriteFailed /\ OnlyDepositsAndWithdrawals
    /\ th["t1"].op.kind = "deposit" /\ th["t2"].op.kind = "withdraw"
    /\ th["t1"].op.a = "A" /\ th["t2"].op.a = "A"
    /\ th["t1"].result = "Success" /\ th["t2"].result = "Success"

\* C2: in every reachable state, in the middle of a transfer and after failed
\* writes and rollback writes too, every persisted balance is >= 0.
C2_NonNegative ==
    \A a \in Accounts : files[a].st = "ok" => files[a].bal >= 0
\* A transfer of the whole balance has persisted its debit and not yet its
\* credit.
C2_Witness ==
    \E t \in Threads :
       /\ th[t].op.kind = "transfer"
       /\ th[t].pc = "wrote_to"
       /\ th[t].success_from
       /\ files[th[t].op.a] = Rec(0)

\* C3: when a transfer that reports success leaves its locks, the source holds
\* what it held when the locks were taken minus the amount, the destination
\* what it held plus the amount, and their sum is unchanged.
C3_TransferExact ==
    \A t \in Threads :
       (AtExit(t) /\ Reported(t, "transfer", "Success")) =>
          LET q == th[t].op
              h == hist[t]
          IN /\ h.pre_from.st = "ok" /\ h.pre_to.st = "ok"
             /\ files[q.a] = Rec(h.pre_from.bal - q.amt)
             /\ files[q.b] = Rec(h.pre_to.bal + q.amt)
             /\ files[q.a].bal + files[q.b].bal = h.pre_from.bal + h.pre_to.bal
\* A successful transfer at its exit, after another caller changed the source.
C3_Witness ==
    \E t \in Threads :
       /\ AtExit(t) /\ Reported(t, "transfer", "Success")
       /\ hist[t].pre_from # InitialFiles[th[t].op.a]


\* The lock thread t is blocked on, if any: an account lock in `with lock:`,
\* global_lock in get_account_lock or the snapshot, the audit lock in
\* log_transaction_atomic.
WaitsFor(t) ==
    CASE th[t].pc = "acquire" -> LockOwner(th[t].handles[th[t].held + 1])
      [] th[t].pc = "getlock" -> global_lock
      [] th[t].pc = "snap_list" /\ variant \in {"c2", GatedVariant} -> global_lock
      [] th[t].pc = "log" -> log_lock
      [] OTHER -> NoThread
Blocked(t) == WaitsFor(t) \notin {NoThread, t}

\* C4: no deadlock: there is never a non-empty set of threads each of which
\* waits for a lock (account, registry or audit) held by a thread of the set.
C4_NoDeadlock ==
    ~ \E S \in SUBSET Threads :
         /\ S # {}
         /\ \A t \in S : Blocked(t) /\ WaitsFor(t) \in S
\* The three transfers of the cycle are in flight and two of them wait.
C4_Witness ==
    /\ \A t \in Threads : th[t].op.kind = "transfer" /\ Running(t)
    /\ \E t, u \in Threads : t # u /\ Blocked(t) /\ Blocked(u)


\* The amount thread t's transfer moved: its amount if it reported success.
Moved(t) == IF th[t].result = "Success" THEN th[t].op.amt ELSE 0
BothReturned == th["t1"].pc = "done" /\ th["t2"].pc = "done"

WriteJustReturned(t) ==
    /\ th[t].pc \in {"created", "deposited", "withdrew", "wrote_from",
                     "wrote_to", "rolled_from", "rolled_to"}
    /\ th[t].wcall.phase = "none"

\* C6: a write whose temp-file write or rename fails leaves the final record
\* as it was, and the final record never holds anything but a complete
\* balance: the one from before the write until the rename, the new one after.
C6_AtomicWrite ==
    /\ \A a \in Accounts : files[a].st \in {"absent", "ok"}
    /\ \A t \in Threads :
          /\ th[t].wcall.phase # "none" =>
                files[th[t].wcall.acct] = hist[t].wbefore
          /\ (WriteJustReturned(t) /\ ~th[t].wret) =>
                files[hist[t].wacct] = hist[t].wbefore
          /\ (WriteJustReturned(t) /\ th[t].wret) =>
                files[hist[t].wacct] = Rec(hist[t].wval)
\* A rename has failed: the temp file holds the new record, the final record
\* still the previous balance.
C6_Witness ==
    \E t \in Threads :
       /\ th[t].wcall.phase = "cleanup"
       /\ tmp[th[t].wcall.acct] = Rec(th[t].wcall.val)
       /\ files[th[t].wcall.acct].st = "ok"
       /\ files[th[t].wcall.acct] # Rec(th[t].wcall.val)

\* C7: create on an id that has a record reports AlreadyExists (and only
\* then), makes no write and leaves the record as it was.
C7_CreateExisting ==
    \A t \in Threads :
       (AtExit(t) /\ th[t].op.kind = "create") =>
          /\ (hist[t].pre_from.st # "absent") <=> (th[t].result = "AlreadyExists")
          /\ th[t].result = "AlreadyExists" =>
                /\ hist[t].nwrites = 0
                /\ files[th[t].op.a] = hist[t].pre_from
\* create(C, x) succeeded, then create(C, y) with another y was refused and C
\* still holds x.
C7_Witness ==
    \E t, u \in Threads :
       /\ Reported(t, "create", "Success") /\ th[t].pc = "done"
       /\ AtExit(u) /\ Reported(u, "create", "AlreadyExists")
       /\ th[t].op.a = th[u].op.a /\ th[t].op.amt # th[u].op.amt
       /\ files[th[t].op.a] = Rec(th[t].op.amt)

\* C8: a withdrawal of more than the balance reports InsufficientFunds, makes
\* no write, leaves the balance, and (BS.py, no append lost) appends exactly
\* one Withdraw/Failed entry for the account; a withdrawal of exactly the
\* balance is not refused and, when its write succeeds, leaves 0.
C8_WithdrawInsufficient ==
    \A t \in Threads :
       (AtExit(t) /\ th[t].op.kind = "withdraw" /\ hist[t].pre_from.st = "ok") =>
          LET q == th[t].op
              h == hist[t]
          IN IF q.amt > h.pre_from.bal
             THEN /\ th[t].result = "InsufficientFunds"
                  /\ h.nwrites = 0
                  /\ files[q.a] = h.pre_from
                  /\ (variant = "BS" /\ h.lost = 0) =>
                        h.appended = <<Entry("Withdraw", q.a, "Amount",
                                             NoAccount, q.amt, "Failed")>>
             ELSE /\ th[t].result = (IF h.wfails = 0 THEN "Success"
                                     ELSE "IoFailure")
                  /\ (q.amt = h.pre_from.bal /\ th[t].result = "Success") =>
                        files[q.a] = Rec(0)
\* BS.py has refused a withdrawal of more than the balance and logged it.
C8_Witness ==
    \E t \in Threads :
       /\ AtExit(t) /\ Reported(t, "withdraw", "InsufficientFunds")
       /\ variant = "BS"
       /\ Len(hist[t].appended) = 1
       /\ th[t].op.amt > files[th[t].op.a].bal

\* C9: transfer(id, id, amount) reports SameAccount, changes no balance, asks
\* for no lock handle and takes no lock, and (no append lost) appends exactly
\* one Transfer/Failed entry attributed to id.
C9_SameAccount ==
    \A t \in Threads :
       (th[t].pc \in {"ret", "done"} /\ th[t].op.kind = "transfer"
          /\ th[t].op.a = th[t].op.b) =>
          /\ th[t].result = "SameAccount"
          /\ hist[t].nwrites = 0
          /\ th[t].handles = <<>> /\ th[t].held = 0
          /\ hist[t].lost = 0 =>
                hist[t].appended =
                   <<Entry("Transfer", th[t].op.a,
                           "Attempted to transfer to self", NoAccount,
                           th[t].op.amt, "Failed")>>

\* C10: a transfer that reports success has appended (no append lost) exactly
\* two entries, both Success: one for the source naming the destination and
\* the amount, one for the destination naming the source and the amount.
C10_TwoSuccessEntries ==
    \A t \in Threads :
       (Reported(t, "transfer", "Success") /\ hist[t].lost = 0) =>
          LET q == th[t].op
          IN hist[t].appended =
                <<Entry("Transfer", q.a, "To", q.b, q.amt, "Success"),
                  Entry("Transfer", q.b, "From", q.a, q.amt, "Success")>>
\* A successful transfer at its exit with both entries in the log.
C10_Witness ==
    \E t \in Threads :
       /\ AtExit(t) /\ Reported(t, "transfer", "Success")
       /\ Len(hist[t].appended) = 2
       /\ Len(log) > 2


\* Every lock handle some thread has obtained, as <<id, handle>>.
HandedOut ==
    UNION {{th[t].handles[i] : i \in 1 .. Len(th[t].handles)} : t \in Threads}

\* C11: get_account_lock hands out one handle per id for the whole run: every
\* handle a thread has obtained for an id is the one the registry holds for
\* that id, so no two handles for one id exist; and a registry entry, once
\* inserted, is never removed or replaced.
C11_OneHandlePerId ==
    /\ [](\A e \in HandedOut : account_locks[e[1]] = e[2])
    /\ [][\A a \in Accounts :
             account_locks[a] # 0 => account_locks'[a] = account_locks[a]]_vars
\* Two threads have asked for the handle of one id, one of them for another
\* id as well, and one of them holds the shared lock.
C11_Witness ==
    \E t, u \in Threads :
       /\ t # u
       /\ \E e \in HandedOut : \E i, j \in 1 .. 2 :
             /\ i <= Len(th[t].handles) /\ th[t].handles[i] = e
             /\ j <= Len(th[u].handles) /\ th[u].handles[j] = e
       /\ Len(th[t].handles) = 2
       /\ owner # {}


\* Thread t's transfer is at its exit with exactly one of its two persist
\* calls failed.
OnePersistFailed(t) ==
    /\ AtExit(t) /\ th[t].op.kind = "transfer"
    /\ hist[t].nwrites >= 2
    /\ th[t].success_from # th[t].success_to

\* C12: a transfer one of whose two persist calls failed and whose compensating
\* write succeeded leaves, at its exit, both accounts with the balances they
\* had when it took its locks, reports failure, and (no append lost) has
\* appended exactly two Failed entries, one for each account.
C12_RolledBack ==
    \A t \in Threads :
       (OnePersistFailed(t) /\ ~hist[t].rbfail) =>
          LET q == th[t].op
          IN /\ files[q.a] = hist[t].pre_from
             /\ files[q.b] = hist[t].pre_to
             /\ th[t].result = "IoFailure"
             /\ hist[t].lost = 0 =>
                   hist[t].appended =
                      <<Entry("Transfer", q.a, "To", q.b, q.amt, "Failed"),
                        Entry("Transfer", q.b, "From", q.a, q.amt, "Failed")>>
\* c3.py: the credit failed after the debit was persisted, and the debit has
\* been undone.
C12_Witness ==
    \E t \in Threads :
       /\ Gated /\ OnePersistFailed(t) /\ ~hist[t].rbfail
       /\ th[t].success_from
       /\ hist[t].nwrites = 3 /\ hist[t].wfails = 1
       /\ Len(hist[t].appended) = 2


\* C13: a transfer whose persist failed and whose compensating write failed
\* too, leaving the two balances inconsistent, reports an outcome other than
\* the one it reports after a rollback that worked.
C13_LoudRollbackFailure ==
    \A t \in Threads :
       (AtExit(t) /\ th[t].op.kind = "transfer" /\ hist[t].rbfail
          /\ (files[th[t].op.a] # hist[t].pre_from
                \/ files[th[t].op.b] # hist[t].pre_to)) =>
          th[t].result # "IoFailure"


\* C14: in c3.py, once every concurrent deposit and withdrawal on an existing
\* account has returned with no write failure, the stored balance is the
\* initial balance plus the successful deposits minus the successful
\* withdrawals, and a withdrawal that reports success asked for no more than
\* the balance the account had when the withdrawal took the lock.
C14_GatedNoLostUpdate ==
    Gated =>
       /\ (Quiescent /\ NoWriteFailed /\ OnlyDepositsAndWithdrawals) =>
             \A a \in Accounts :
                InitialFiles[a].st = "ok" =>
                   files[a] = Rec(InitialFiles[a].bal + SumOver(Threads, Delta(a)))
       /\ \A t \in Threads :
             Reported(t, "withdraw", "Success") =>
                /\ hist[t].pre_from.st = "ok"
                /\ th[t].op.amt <= hist[t].pre_from.bal


\* Thread t has returned from a gated operation of c3.py that it called with a
\* password other than the account's, or on an account that has no valid
\* record (records are never removed, so it had none when t looked either).
AuthenticationFails(t) ==
    /\ Gated
    /\ th[t].pc \in {"ret", "done"}
    /\ th[t].op.kind \in {"deposit", "withdraw", "transfer", "view"}
    /\ th[t].op.a # th[t].op.b
    /\ \/ th[t].password # Password(th[t].op.a)
       \/ files[th[t].op.a].st # "ok"

OutcomeWithoutAudit(t) ==
    LET q == th[t].op
        h == hist[t]
        done == IF h.wfails = 0 THEN "Success" ELSE "IoFailure"
    IN CASE q.kind = "create" ->
              IF h.pre_from.st # "absent"
              THEN th[t].result = "AlreadyExists" /\ files[q.a] = h.pre_from
              ELSE /\ th[t].result = done
                   /\ files[q.a] = IF h.wfails = 0 THEN Rec(q.amt) ELSE h.pre_from
         [] q.kind = "deposit" ->
              IF h.pre_from.st # "ok"
              THEN th[t].result = "NoSuchAccount" /\ files[q.a] = h.pre_from
              ELSE /\ th[t].result = done
                   /\ files[q.a] = IF h.wfails = 0
                                   THEN Rec(h.pre_from.bal + q.amt) ELSE h.pre_from
         [] q.kind = "withdraw" ->
              IF h.pre_from.st # "ok"
              THEN th[t].result = "NoSuchAccount" /\ files[q.a] = h.pre_from
              ELSE IF q.amt > h.pre_from.bal
              THEN th[t].result = "InsufficientFunds" /\ files[q.a] = h.pre_from
              ELSE /\ th[t].result = done
                   /\ files[q.a] = IF h.wfails = 0
                                   THEN Rec(h.pre_from.bal - q.amt) ELSE h.pre_from
         [] q.kind = "transfer" /\ q.a # q.b ->
              IF h.pre_from.st # "ok" \/ h.pre_to.st # "ok"
              THEN /\ th[t].result = "NoSuchAccount"
                   /\ files[q.a] = h.pre_from /\ files[q.b] = h.pre_to
              ELSE IF q.amt > h.pre_from.bal
              THEN /\ th[t].result = "InsufficientFunds"
                   /\ files[q.a] = h.pre_from /\ files[q.b] = h.pre_to
              ELSE /\ th[t].result = done
                   /\ h.wfails = 0 =>
                         /\ files[q.a] = Rec(h.pre_from.bal - q.amt)
                         /\ files[q.b] = Rec(h.pre_to.bal + q.amt)
                   /\ (h.wfails > 0 /\ ~h.rbfail) =>
                         /\ files[q.a] = h.pre_from
                         /\ files[q.b] = h.pre_to
         [] OTHER -> TRUE

\* C16: a failed audit append changes neither the effect nor the outcome of
\* create, deposit, withdraw or transfer: at the exit of the operation the
\* outcome and the records are what the request, the records found and the
\* write results determine, whether or not an append failed, and the operation
\* does not end in an exception.
C16_AuditFailureSwallowed ==
    \A t \in Threads :
       AtExit(t) => (OutcomeWithoutAudit(t) /\ th[t].result # "Exception")
\* A deposit whose only audit append failed is at its exit, reporting success.
C16_Witness ==
    \E t \in Threads :
       /\ AtExit(t) /\ Reported(t, "deposit", "Success")
       /\ hist[t].lost = 1 /\ hist[t].appended = <<>>
       /\ files[th[t].op.a] = Rec(hist[t].pre_from.bal + th[t].op.amt)


\* C17: an unparseable record is treated like a missing one: deposit,
\* withdraw, transfer and view on it fail without a write, and create on it
\* goes ahead as on an id with no record (it writes the record and, when the
\* write succeeds, reports success and leaves the initial balance).
C17_CorruptAsMissing ==
    \A t \in Threads :
       AtExit(t) =>
          LET q == th[t].op
              h == hist[t]
          IN /\ (q.kind \in {"deposit", "withdraw"} /\ h.pre_from = Partial) =>
                   th[t].result = "NoSuchAccount" /\ h.nwrites = 0
             /\ (q.kind = "transfer" /\ q.a # q.b
                   /\ (h.pre_from = Partial \/ h.pre_to = Partial)) =>
                   th[t].result = "NoSuchAccount" /\ h.nwrites = 0
             /\ (q.kind = "view" /\ files[q.a] = Partial) =>
                   th[t].result = "NoSuchAccount" /\ h.nwrites = 0
             /\ (q.kind = "create" /\ h.pre_from = Partial) =>
                   /\ h.nwrites = 1
                   /\ th[t].result = (IF h.wfails = 0 THEN "Success"
                                      ELSE "IoFailure")
                   /\ h.wfails = 0 => files[q.a] = Rec(q.amt)


\* Thread u is inside a write_balance_atomic call on account a.
Writing(u, a) == th[u].wcall.phase # "none" /\ th[u].wcall.acct = a

\* C18: view asks for no lock handle and takes no lock, and its read can
\* always go ahead, whoever holds the account's lock; the read changes no
\* record, and the balance it returns is the complete record of that moment,
\* which, when a write to the account is in progress, is the value from before
\* that write (the new value is in place only once the write has renamed it).
C18_ViewLockFree ==
    /\ [](\A t \in Threads :
            th[t].op.kind = "view" =>
               /\ th[t].handles = <<>> /\ th[t].held = 0
               /\ hist[t].nwrites = 0
               /\ th[t].pc = "view" => ENABLED ViewRead(t))
    /\ [][\A t \in Threads :
            ViewRead(t) =>
               /\ files' = files /\ tmp' = tmp
               /\ th'[t].result = "Success" =>
                     /\ files[th[t].op.a] = Rec(th'[t].balance_from)
                     /\ \A u \in Threads :
                           Writing(u, th[t].op.a) =>
                              Rec(th'[t].balance_from) = hist[u].wbefore]_vars
\* A view has read A while another caller, holding A's lock, had the new
\* record in the temp file and had not renamed it yet.
C18_Witness ==
    \E t, u \in Threads :
       /\ Reported(t, "view", "Success") \/ th[t].pc = "log"
       /\ th[t].op.kind = "view" /\ th[t].result = "Success"
       /\ Writing(u, th[t].op.a) /\ th[u].wcall.phase = "rep"
       /\ LockOwner(th[u].handles[1]) = u
       /\ files[th[t].op.a] = Rec(th[t].balance_from)
       /\ th[u].wcall.val # th[t].balance_from


\* The <<id, balance>> pairs of the accounts that have a valid record.
ValidRecords == {<<a, files[a].bal>> : a \in {b \in Accounts : files[b].st = "ok"}}

\* C19: a snapshot that ran with every other caller idle has written, when it
\* returns, one line for each account that has a valid record, with that
\* account's balance, and no other line.
C19_SnapshotComplete ==
    \A t \in Threads :
       (AtExit(t) /\ th[t].op.kind = "snapshot"
          /\ \A u \in Threads \ {t} : th[u].pc = "idle") =>
          /\ {central_log[i] : i \in 1 .. Len(central_log)} = ValidRecords
          /\ Len(central_log) = Cardinality(ValidRecords)


\* The account locks thread t holds.
HeldBy(t) == {e.h : e \in {x \in owner : x.t = t}}

\* C20: a transfer asks for and takes its two account locks in ascending id
\* order, whichever of the two is the source: the locks it holds are the first
\* `held` of its handles, and the first handle's id sorts before the second's.
\* deposit, withdraw and create never hold more than one account lock.
C20_AscendingLockOrder ==
    \A t \in Threads :
       /\ HeldBy(t) = {th[t].handles[i] : i \in 1 .. th[t].held}
       /\ th[t].op.kind = "transfer" =>
             /\ Len(th[t].handles) <= 2
             /\ Len(th[t].handles) = 2 =>
                   Ord(th[t].handles[1][1]) < Ord(th[t].handles[2][1])
       /\ th[t].op.kind \in {"deposit", "withdraw", "create"} =>
             Cardinality(HeldBy(t)) <= 1 /\ Len(th[t].handles) <= 1
\* c3.py: transfer(B, A, 1) holds A's lock and waits for B's, which a
\* transfer(A, B, 1) in flight has in its own list too.
C20_Witness ==
    \E t, u \in Threads :
       /\ Gated
       /\ th[t].op.kind = "transfer" /\ th[t].op.a = "B" /\ th[t].op.b = "A"
       /\ th[t].pc = "acquire" /\ th[t].held = 1
       /\ HeldBy(t) = {th[t].handles[1]} /\ th[t].handles[1][1] = "A"
       /\ th[u].op.kind = "transfer" /\ th[u].op.a = "A" /\ Running(u)


\* The ids of the account locks thread t holds.
LockedIds(t) == {h[1] : h \in HeldBy(t)}

\* C21: a thread inside a write of an account's record holds that account's
\* lock, a record changes only in a step of such a thread, and no two threads
\* hold a lock of the same account at once.
C21_WritesUnderLock ==
    /\ [](\A t \in Threads :
            th[t].wcall.phase # "none" => th[t].wcall.acct \in LockedIds(t))
    /\ [](\A t, u \in Threads : t # u => LockedIds(t) \cap LockedIds(u) = {})
    /\ [][\A a \in Accounts :
            files'[a] # files[a] =>
               \E t \in Threads :
                  /\ a \in LockedIds(t)
                  /\ th[t].wcall.acct = a /\ th[t].wcall.phase = "rep"]_vars
\* A caller is about to rename A's new record into place, holding A's lock,
\* while another caller waits for that lock.
C21_Witness ==
    \E t, u \in Threads :
       /\ th[t].wcall.phase = "rep" /\ th[t].wcall.acct \in LockedIds(t)
       /\ th[u].pc = "acquire" /\ WaitsFor(u) = t
       /\ th[u].handles[th[u].held + 1][1] = th[t].wcall.acct


\* The callers whose create of account a has returned, and those among them
\* that reported success.
Creators(a) ==
    {t \in Threads : th[t].pc = "done" /\ th[t].op.kind = "create"
                       /\ th[t].op.a = a}
Created(a) == {t \in Creators(a) : th[t].result = "Success"}

\* C22: when concurrent creates of one id that had no record have all
\* returned, with no write failure, exactly one of them reported success,
\* every other one AlreadyExists, and the record holds the initial balance of
\* the one that succeeded.
C22_OneCreateWins ==
    \A a \in Accounts :
       (Quiescent /\ NoWriteFailed /\ InitialFiles[a].st = "absent"
          /\ Creators(a) # {}
          /\ \A t \in Threads : th[t].op.kind \in {"none", "create"}) =>
          /\ Cardinality(Created(a)) = 1
          /\ \A t \in Creators(a) \ Created(a) : th[t].result = "AlreadyExists"
          /\ \A t \in Created(a) : files[a] = Rec(th[t].op.amt)
\* Three creates of C have returned; the one that won asked for another
\* balance than the two that were refused.
C22_Witness ==
    /\ Quiescent /\ NoWriteFailed
    /\ Creators("C") = Threads
    /\ \E t \in Created("C") :
          \A u \in Threads \ {t} : th[u].op.amt # th[t].op.amt


\* C23: a thread that holds global_lock is not about to read or write an
\* account record, does not append to the audit log and does not wait for an
\* account lock; a snapshot does not hold it while it reads the balances.
C23_RegistryLockBrief ==
    \A t \in Threads :
       global_lock = t =>
          /\ ~(th[t].pc = "snap_read" /\ th[t].listing # {})
          /\ th[t].wcall.phase = "none"
          /\ th[t].pc \notin {"view", "locked", "acquire", "log", "logging"}


\* C24: a thread that holds the audit lock is inside the append and waits for
\* nothing; while it holds the lock it obtains no lock handle (so it does not
\* ask for the registry lock) and takes no account lock, and its next step
\* releases the audit lock.
C24_AuditLockLast ==
    /\ [](\A t \in Threads :
            log_lock = t => (th[t].pc = "logging" /\ ~Blocked(t)))
    /\ [][\A t \in Threads :
            log_lock = t =>
               /\ th'[t].handles = th[t].handles
               /\ {e \in owner' : e.t = t} \subseteq owner
               /\ global_lock' = t => global_lock = t
               /\ th'[t] # th[t] => log_lock' = NoThread]_vars
\* A caller appends its entry, holding the audit lock and an account lock it
\* took earlier, while another caller waits for the audit lock.
C24_Witness ==
    \E t, u \in Threads :
       /\ log_lock = t /\ th[t].pc = "logging" /\ HeldBy(t) # {}
       /\ th[u].pc = "log" /\ WaitsFor(u) = t /\ HeldBy(u) # {}


\* The account ids passed to thread t's call.
OwnIds(t) == {th[t].op.a, th[t].op.b} \cap Accounts

\* C25: the account lock a thread asks for is the lock of an id passed to its
\* own call, and when that lock is held by another thread, the id was passed
\* to that thread's call too: no operation waits for an account lock on
\* behalf of accounts it does not touch.
C25_DisjointParallel ==
    \A t \in Threads :
       th[t].pc = "acquire" =>
          LET h == th[t].handles[th[t].held + 1]
              u == LockOwner(h)
          IN /\ h[1] \in OwnIds(t)
             /\ u \notin {NoThread, t} => h[1] \in OwnIds(u)
\* Operations on disjoint accounts are both inside their writes, each holding
\* its own lock, while a third caller waits for one of those locks.
C25_Witness ==
    \E t, u, v \in Threads :
       /\ OwnIds(t) \cap OwnIds(u) = {}
       /\ th[t].wcall.phase = "rep" /\ th[u].wcall.phase = "rep"
       /\ HeldBy(t) # {} /\ HeldBy(u) # {}
       /\ th[v].pc = "acquire" /\ WaitsFor(v) = u


\* C26: a deposit on an id without a valid record reports NoSuchAccount,
\* makes no write (so it creates no record and changes no other account) and,
\* in BS.py with no append lost, appends exactly one Deposit/Failed entry; a
\* deposit whose write fails reports the failure, leaves the record as it was
\* and appends exactly one Deposit/Failed entry.
C26_DepositFailures ==
    \A t \in Threads :
       (AtExit(t) /\ th[t].op.kind = "deposit") =>
          LET q == th[t].op
              h == hist[t]
              failed == <<Entry("Deposit", q.a, "Amount", NoAccount, q.amt,
                                "Failed")>>
          IN /\ h.pre_from.st # "ok" =>
                   /\ th[t].result = "NoSuchAccount"
                   /\ h.nwrites = 0
                   /\ files[q.a] = h.pre_from
                   /\ (variant = "BS" /\ h.lost = 0) => h.appended = failed
             /\ (h.pre_from.st = "ok" /\ h.wfails > 0) =>
                   /\ th[t].result = "IoFailure"
                   /\ h.nwrites = 1 /\ h.wacct = q.a
                   /\ files[q.a] = h.pre_from
                   /\ h.lost = 0 => h.appended = failed
\* BS.py has refused a deposit on C, which has no record, and logged it.
C26_Witness ==
    \E t \in Threads :
       /\ variant = "BS"
       /\ AtExit(t) /\ Reported(t, "deposit", "NoSuchAccount")
       /\ files[th[t].op.a] = NoFile
       /\ Len(hist[t].appended) = 1 /\ hist[t].appended[1].status = "Failed"


\* C27: a transfer between two different ids one of which has no valid record
\* reports NoSuchAccount, one whose source holds less than the amount reports
\* InsufficientFunds; either way no record is written, both keep what they
\* held, and (BS.py, no append lost) exactly one Transfer/Failed entry, for the
\* source, is appended. A transfer of exactly the source's balance whose
\* writes succeed reports success and leaves the source at 0.
C27_TransferRefusals ==
    \A t \in Threads :
       (AtExit(t) /\ th[t].op.kind = "transfer" /\ th[t].op.a # th[t].op.b) =>
          LET q == th[t].op
              h == hist[t]
              missing == h.pre_from.st # "ok" \/ h.pre_to.st # "ok"
              short == ~missing /\ q.amt > h.pre_from.bal
          IN /\ missing => th[t].result = "NoSuchAccount"
             /\ short => th[t].result = "InsufficientFunds"
             /\ (missing \/ short) =>
                   /\ h.nwrites = 0
                   /\ files[q.a] = h.pre_from /\ files[q.b] = h.pre_to
                   /\ (variant = "BS" /\ h.lost = 0) =>
                         h.appended = <<Entry("Transfer", q.a, "To", q.b,
                                              q.amt, "Failed")>>
             /\ (~missing /\ q.amt = h.pre_from.bal /\ h.wfails = 0) =>
                   th[t].result = "Success" /\ files[q.a] = Rec(0)
\* BS.py has refused, and logged, a transfer of more than the source holds,
\* after another caller's transfer had emptied the source.
C27_Witness ==
    \E t, u \in Threads :
       /\ variant = "BS"
       /\ AtExit(t) /\ Reported(t, "transfer", "InsufficientFunds")
       /\ Len(hist[t].appended) = 1
       /\ th[u].pc = "done" /\ Reported(u, "transfer", "Success")
       /\ th[u].op.a = th[t].op.a /\ files[th[t].op.a] = Rec(0)


\* C28: in c3.py a transfer that passed the gate and found, under its locks,
\* no valid record for the destination reports NoSuchAccount to its caller,
\* has written nothing, leaves both records as they were and, once returned,
\* holds no lock.
C28_GatedMissingDestination ==
    \A t \in Threads :
       (Gated /\ th[t].pc \in {"ret", "done"} /\ th[t].op.kind = "transfer"
          /\ Len(th[t].handles) = 2
          /\ hist[t].pre_from.st = "ok" /\ hist[t].pre_to.st # "ok") =>
          /\ th[t].result = "NoSuchAccount"
          /\ hist[t].nwrites = 0
          /\ files[th[t].op.a] = hist[t].pre_from
          /\ th[t].pc = "done" => HeldBy(t) = {}


\* C29: in c2.py every deposit, withdraw and transfer that has completed (with
\* no append lost) has appended at least one audit entry whose status matches
\* its outcome: Success when it succeeded, Failed when it failed.
C29_EveryCallLogged ==
    \A t \in Threads :
       (variant = "c2" /\ th[t].pc \in {"ret", "done"}
          /\ th[t].op.kind \in {"deposit", "withdraw", "transfer"}
          /\ hist[t].lost = 0) =>
          \E i \in 1 .. Len(hist[t].appended) :
             hist[t].appended[i].status =
                (IF th[t].result = "Success" THEN "Success" ELSE "Failed")


\* C30: no step removes a final record: a record that exists exists after
\* every step, and a valid record is valid after every step, the steps of
\* failed writes, failed renames, temp-file cleanup and rollback included.
C30_NeverDeleted ==
    [][\A a \in Accounts :
          /\ files[a].st # "absent" => files'[a].st # "absent"
          /\ files[a].st = "ok" => files'[a].st = "ok"]_vars
\* A transfer whose write and whose rollback both failed has returned, the
\* temp files are cleaned up and both records are still there.
C30_Witness ==
    \E t \in Threads :
       /\ th[t].pc = "done" /\ th[t].op.kind = "transfer"
       /\ hist[t].rbfail /\ hist[t].wfails = 2
       /\ files[th[t].op.a].st = "ok" /\ files[th[t].op.b].st = "ok"
       /\ \A a \in Accounts : tmp[a] = NoFile


\* Thread t's create failed to persist and is about to leave its lock.
CreateFailed(t) ==
    /\ AtExit(t) /\ th[t].op.kind = "create" /\ th[t].result = "IoFailure"

\* C31: once write_balance_atomic has returned, True or False, no temp file
\* of that account remains; a create whose write failed leaves neither a
\* record nor a temp file and, unless the append itself failed, has logged
\* Create Account / Failed.
C31_NoTempLeft ==
    \A t \in Threads :
       /\ WriteJustReturned(t) => tmp[hist[t].wacct] = NoFile
       /\ CreateFailed(t) =>
             /\ files[th[t].op.a] = NoFile
             /\ tmp[th[t].op.a] = NoFile
             /\ hist[t].lost = 0 =>
                   hist[t].appended =
                      <<Entry("Create Account", th[t].op.a, "Initial balance",
                              NoAccount, th[t].op.amt, "Failed")>>
\* A create whose temp file was cut short has cleaned up, logged and is about
\* to return.
C31_Witness ==
    \E t \in Threads :
       /\ CreateFailed(t)
       /\ hist[t].wfails = 1
       /\ Len(hist[t].appended) = 1


\* Thread t is inside `with transaction_log_lock:`.
InAppend(t) == th[t].pc = "logging"
\* A complete audit line: operation kind, account id, details and outcome.
CompleteEntry(e) ==
    /\ DOMAIN e = {"kind", "id", "tag", "peer", "amount", "status"}
    /\ e.kind \in {"Create Account", "Deposit", "Withdraw", "Transfer",
                   "View Balance"}
    /\ e.id \in Accounts
    /\ e.status \in {"Success", "Failed"}

\* C32: at most one thread is inside the audit append, and it is the holder
\* of the audit lock; the log holds complete entries only; a step that
\* changes the log appends exactly one whole entry, the one the thread inside
\* the append is writing, so entries of concurrent callers interleave at
\* entry boundaries only.
C32_AuditSerialized ==
    /\ [](/\ Cardinality({t \in Threads : InAppend(t)}) <= 1
          /\ \A t \in Threads : InAppend(t) => log_lock = t
          /\ \A i \in 1 .. Len(log) : CompleteEntry(log[i]))
    /\ [][log' # log =>
            \E t \in Threads :
               /\ InAppend(t) /\ log_lock = t
               /\ log' = Append(log, Head(th[t].logq))
               /\ hist'[t].appended = Append(hist[t].appended, Head(th[t].logq))
               /\ \A u \in Threads \ {t} :
                     hist'[u].appended = hist[u].appended]_vars
\* The two entries of one caller's transfer are in the log with an entry of a
\* concurrent caller between them.
C32_Witness ==
    \E t, u \in Threads : \E i \in 1 .. Len(log) :
       /\ t # u /\ i + 2 <= Len(log)
       /\ Len(hist[t].appended) = 2 /\ Len(hist[u].appended) >= 1
       /\ log[i] = hist[t].appended[1]
       /\ log[i + 1] = hist[u].appended[1]
       /\ log[i + 2] = hist[t].appended[2]


\* The stored balances, a missing record counting 0.
StoredBalance == [a \in Accounts |-> files[a].bal]
InitialBalance == [a \in Accounts |-> InitialFiles[a].bal]
\* What thread t's call, if it returned success, added to the total.
NetDeposited ==
    [t \in Threads |->
        IF th[t].pc = "done" /\ th[t].result = "Success"
        THEN CASE th[t].op.kind = "deposit" -> th[t].op.amt
               [] th[t].op.kind = "withdraw" -> 0 - th[t].op.amt
               [] OTHER -> 0
        ELSE 0]
NoAccountCreated ==
    \A t \in Threads : th[t].op.kind # "create"
OnlyTransfers ==
    \A t \in Threads : th[t].op.kind \in {"none", "transfer"}

\* C33: with no write failure and no account created, in every state with no
\* operation in flight the sum of all stored balances is the sum of the
\* initial balances plus the deposits that succeeded minus the withdrawals
\* that succeeded; when all calls were transfers the total is the initial one.
C33_TotalConserved ==
    (Quiescent /\ NoWriteFailed /\ NoAccountCreated) =>
       /\ SumOver(Accounts, StoredBalance) =
             SumOver(Accounts, InitialBalance) + SumOver(Threads, NetDeposited)
       /\ OnlyTransfers =>
             SumOver(Accounts, StoredBalance) = SumOver(Accounts, InitialBalance)
\* A transfer A -> B and a deposit to A, started together, have both
\* succeeded.
C33_Witness ==
    /\ Quiescent /\ NoWriteFailed
    /\ \E t, u \in Threads :
          /\ Reported(t, "transfer", "Success") /\ th[t].op.a = "A"
          /\ Reported(u, "deposit", "Success") /\ th[u].op.a = "A"
          /\ hist[t].pre_from # InitialFiles["A"]
          /\ SumOver(Accounts, StoredBalance) =
                SumOver(Accounts, InitialBalance) + th[u].op.amt


\* Thread t's transfer has read both balances, started to persist and has not
\* left its locks yet.
TransferPersisting(t) ==
    /\ th[t].op.kind = "transfer" /\ Running(t)
    /\ hist[t].nwrites >= 1

\* C34: from the first persist call of a transfer until it leaves its locks,
\* after a failed persist call and during rollback too, the two stored
\* balances add up to no more than they did when the transfer took its locks.
C34_NoTransientCreation ==
    \A t \in Threads :
       TransferPersisting(t) =>
          files[th[t].op.a].bal + files[th[t].op.b].bal <=
             hist[t].pre_from.bal + hist[t].pre_to.bal


\* The balance of account a that the first n audit entries imply: the Success
\* entries attributed to a, applied in log order to a's initial balance.
RECURSIVE Replay(_, _)
Replay(a, n) ==
    IF n = 0 THEN InitialFiles[a].bal
    ELSE LET e == log[n]
             b == Replay(a, n - 1)
         IN IF e.status # "Success" \/ e.id # a THEN b
            ELSE CASE e.kind = "Create Account" -> e.amount
                   [] e.kind = "Deposit" -> b + e.amount
                   [] e.kind = "Withdraw" -> b - e.amount
                   [] e.kind = "Transfer" /\ e.tag = "To" -> b - e.amount
                   [] e.kind = "Transfer" /\ e.tag = "From" -> b + e.amount
                   [] OTHER -> b
NoAppendLost == \A t \in Threads : hist[t].lost = 0

\* C35: when no audit append failed, in every state with no operation in
\* flight, replaying in log order the Success entries of an account (Create,
\* Deposit, Withdraw, and its side of each Transfer) gives exactly the
\* account's stored balance.
C35_ReplayGivesBalance ==
    (Quiescent /\ NoAppendLost) =>
       \A a \in Accounts : files[a].bal = Replay(a, Len(log))


\* Thread t holds no account lock, not the registry lock, not the audit lock.
HoldsNothing(t) == HeldBy(t) = {} /\ global_lock # t /\ log_lock # t

\* C36: an operation that has returned holds no lock, whatever path it took
\* (success, missing account, insufficient funds, already exists, persist
\* failure, an exception raised inside the critical section); once every
\* operation has returned no account lock, registry lock or audit lock is held.
C36_LocksReleased ==
    /\ \A t \in Threads : th[t].pc \in {"idle", "done"} => HoldsNothing(t)
    /\ Quiescent =>
          owner = {} /\ global_lock = NoThread /\ log_lock = NoThread
\* c3.py: a transfer that raised inside its two `with` blocks has returned,
\* and so has the other caller.
C36_Witness ==
    /\ Gated /\ Quiescent
    /\ \E t \in Threads :
          /\ th[t].pc = "done" /\ th[t].op.kind = "transfer"
          /\ th[t].result = "Exception" /\ Len(th[t].handles) = 2
          /\ HoldsNothing(t)
    /\ \E u \in Threads : th[u].pc = "done" /\ th[u].op.kind # "transfer"

====
